---------------------------- MODULE Spec2Model ----------------------------
(***************************************************************************)
(* dfwatcher (src/dfwatcher/main.go): a terminal dashboard that watches a  *)
(* directory, keeps a bounded history of file events and shows the         *)
(* annotated `git diff` of the working tree.                               *)
(*                                                                         *)
(* Text (diff text, lines, paths) is a sequence of one-character strings,  *)
(* so that prefix tests, splitting and trimming are computed as the Go     *)
(* code computes them.  lipgloss styles only wrap text in escape codes;    *)
(* a rendered line is modelled by the style applied (its kind), the line   *)
(* number written in front of it (if any) and the text written.            *)
(***************************************************************************)
EXTENDS Integers, Sequences, FiniteSets, TLC

VARIABLES
    \* ---- fields of `model` (main.go:67-78)
    events,        \* m.events: history, most recent first
    table,         \* m.table: [rows, width, height]
    width,         \* m.width
    height,        \* m.height
    ready,         \* m.ready
    diff,          \* m.diff: stored raw diff text
    lastModified,  \* m.lastModified: stored hint
    viewport,      \* m.viewport: [Width, Height, YPosition, content]
    \* ---- the program around the model
    watchCmd,      \* the watchDirectory command: "pending", "done", "failed"
    observer,      \* TRUE once the two goroutines of watchDirectory run
    watched,       \* directories added to the watcher
    obsHold,       \* event the observer goroutine is sending on eventChan
    fwdHold,       \* event the forwarding goroutine is handing to program.Send
    inflight,      \* diffUpdateMsg values returned by commands, not yet processed
    errPending,    \* errMsg values returned by watchDirectory, not yet processed
    ticks,         \* tick timers armed and not yet processed
    quitPending,   \* tea.Quit commands issued and not yet processed
    quit,          \* the program has left its event loop
    running,       \* the message whose handler is inside getDiff, if any
    \* ---- the environment
    tree,          \* what the diff provider (git) would answer now
    now,           \* logical clock read by time.Now()
    \* ---- history variables (not program state)
    emitted,       \* every event the observer put on eventChan, in order
    delivered,     \* every event model.Update processed, in order
    lastRefresh,   \* the latest diff refresh, while the provider's text is the same
    waited,        \* the event at program.Send got there while getDiff was running
    raws,          \* every change made under the watch root, reported or not
    \* ---- the annotation loop of updateDiffView, run line by line
    aIn,           \* lines of the diff being annotated
    aPos,          \* lines already processed
    aLineNum,      \* lineNum
    aOut           \* lines written to content by the loop

progVars == <<events, table, width, height, ready, diff, lastModified, viewport,
              watchCmd, observer, obsHold, fwdHold, inflight, errPending, ticks,
              quitPending, quit, running, tree, now, emitted, delivered, lastRefresh,
              waited, watched, raws>>
annVars == <<aIn, aPos, aLineNum, aOut>>
vars == <<progVars, annVars>>

---------------------------------------------------------------------------
(* Text helpers: package strings                                           *)

NL == "\n"

\* strings.HasPrefix
HasPrefix(s, p) == Len(s) >= Len(p) /\ SubSeq(s, 1, Len(p)) = p

\* strings.TrimPrefix
TrimPrefix(s, p) == IF HasPrefix(s, p) THEN SubSeq(s, Len(p) + 1, Len(s)) ELSE s

\* index of the first newline of s, Len(s)+1 when there is none
NextNL(s) ==
    IF \E i \in 1..Len(s) : s[i] = NL
    THEN CHOOSE i \in 1..Len(s) : s[i] = NL /\ \A j \in 1..(i - 1) : s[j] # NL
    ELSE Len(s) + 1

\* strings.Split(s, "\n"): the text between newlines; Split("") = <<"">>
RECURSIVE Split(_)
Split(s) ==
    LET i == NextNL(s)
    IN  IF i > Len(s) THEN <<s>>
        ELSE <<SubSeq(s, 1, i - 1)>> \o Split(SubSeq(s, i + 1, Len(s)))

\* the inverse used to write inputs down: lines joined by "\n"
RECURSIVE Join(_)
Join(ls) ==
    IF Len(ls) = 0 THEN <<>>
    ELSE IF Len(ls) = 1 THEN ls[1]
    ELSE ls[1] \o <<NL>> \o Join(Tail(ls))

RECURSIVE Reverse(_)
Reverse(s) == IF s = <<>> THEN <<>> ELSE Reverse(Tail(s)) \o <<Head(s)>>

\* the last n elements of s (all of s when it is shorter)
LastN(s, n) == IF Len(s) <= n THEN s ELSE SubSeq(s, Len(s) - n + 1, Len(s))

---------------------------------------------------------------------------
(* updateDiffView (main.go:328-367)                                        *)

WatchDir == <<"/", "r">>

DiffGit  == <<"d", "i", "f", "f", " ", "-", "-", "g", "i", "t">>
Minus3   == <<"-", "-", "-">>
Plus3    == <<"+", "+", "+">>
AtAt     == <<"@", "@">>
Plus     == <<"+">>
Minus    == <<"-">>

IsFileHeader(line) ==
    HasPrefix(line, DiffGit) \/ HasPrefix(line, Minus3) \/ HasPrefix(line, Plus3)
IsHunkHeader(line) == HasPrefix(line, AtAt)
IsAdded(line) == HasPrefix(line, Plus) /\ ~HasPrefix(line, Plus3)
IsRemoved(line) == HasPrefix(line, Minus) /\ ~HasPrefix(line, Minus3)

\* the kind of a raw line: the first branch of the if-chain (343-356) it takes
Classify(line) ==
    IF HasPrefix(line, DiffGit) THEN "file-header"
    ELSE IF HasPrefix(line, Minus3) \/ HasPrefix(line, Plus3) THEN "file-header"
    ELSE IF HasPrefix(line, AtAt) THEN "hunk-header"
    ELSE IF IsAdded(line) THEN "added"
    ELSE IF IsRemoved(line) THEN "removed"
    ELSE "context"

\* a line written to content: num is <<n>> when "%-4s" of n is written in front
Rendered(kind, num, text) == [kind |-> kind, num |-> num, text |-> text]

\* (a counter that the removed branch increments as well)
NextLineNumCountRemoved(line, lineNum) ==
    IF Classify(line) \in {"added", "removed"} THEN lineNum + 1
    ELSE IF Classify(line) = "context" /\ line # <<>> /\ ~HasPrefix(line, AtAt)
    THEN lineNum + 1
    ELSE lineNum

\* lineNum after the line: only the added branch (352) and the context branch,
\* for a non-empty line (360-362), increment it; nothing resets it
NextLineNum(line, lineNum) ==
    IF Classify(line) = "added" THEN lineNum + 1
    ELSE IF Classify(line) = "context" /\ line # <<>> /\ ~HasPrefix(line, AtAt)
    THEN lineNum + 1
    ELSE lineNum

\* what one pass of the loop body (342-364) writes for a line
RenderLine(line, lineNum) ==
    IF HasPrefix(line, DiffGit)
    THEN <<Rendered("blank", <<>>, <<>>), Rendered("file-header", <<>>, line)>>
    ELSE IF HasPrefix(line, Minus3) \/ HasPrefix(line, Plus3)
    THEN <<Rendered("file-header", <<>>, line)>>
    ELSE IF HasPrefix(line, AtAt)
    THEN <<Rendered("hunk-header", <<>>, line)>>
    ELSE IF IsAdded(line)
    THEN <<Rendered("added", <<>>, TrimPrefix(line, Plus))>>
    ELSE IF IsRemoved(line)
    THEN <<Rendered("removed", <<>>, TrimPrefix(line, Minus))>>
    ELSE <<Rendered("context", <<lineNum>>, line)>>

\* the loop over lines, from line i with the counter at lineNum
RECURSIVE AnnotateFrom(_, _, _)
AnnotateFrom(lines, i, lineNum) ==
    IF i > Len(lines) THEN <<>>
    ELSE RenderLine(lines[i], lineNum)
         \o AnnotateFrom(lines, i + 1, NextLineNum(lines[i], lineNum))

FirstLineNum == 1

\* a counter that outlives the call, as a field of the model would
LineNumAtCallKept(previous) == previous
\* lineNum := 1 (341): a local of updateDiffView, made anew at each call
LineNumAtCall(previous) == FirstLineNum

\* the three lines written before the loop (332-339)
Preamble(hint) ==
    <<Rendered("title", <<>>, hint),
      Rendered("preamble", <<>>, Minus3 \o <<" ">> \o WatchDir),
      Rendered("preamble", <<>>, <<"+", "+", "+", " ", "/", "d", "e", "v", "/", "n", "u", "l", "l">>)>>

\* content.String() for a stored diff and hint
AnnotateDiff(d, hint) == Preamble(hint) \o AnnotateFrom(Split(d), 1, FirstLineNum)

---------------------------------------------------------------------------
(* getDiff (main.go:182-206) and the diff provider                         *)

Space == {" ", "\t", "\n", "\r"}

\* strings.TrimSpace
RECURSIVE TrimLeft(_)
TrimLeft(s) == IF s # <<>> /\ Head(s) \in Space THEN TrimLeft(Tail(s)) ELSE s
RECURSIVE TrimRight(_)
TrimRight(s) ==
    IF s # <<>> /\ s[Len(s)] \in Space THEN TrimRight(SubSeq(s, 1, Len(s) - 1)) ELSE s
TrimSpace(s) == TrimRight(TrimLeft(s))

StatusPrefixLen == 3

\* the hint: the first status line longer than three characters, without its
\* first three characters, trimmed (194-203)
RECURSIVE FirstPath(_)
FirstPath(lines) ==
    IF lines = <<>> THEN <<>>
    ELSE IF Len(Head(lines)) > StatusPrefixLen
    THEN TrimSpace(SubSeq(Head(lines), StatusPrefixLen + 1, Len(Head(lines))))
    ELSE FirstPath(Tail(lines))

ErrGettingDiff ==
    <<"E", "r", "r", "o", "r", " ", "g", "e", "t", "t", "i", "n", "g", " ",
      "d", "i", "f", "f", ":", " ">>

\* a provider whose failure leaves no text
getDiffSilent(t) ==
    [diff |-> IF t.err # <<>> THEN <<>> ELSE t.out,
     lastModified |-> IF t.err = <<>> /\ Len(t.status) > 0 THEN FirstPath(Split(t.status))
                      ELSE <<>>]

\* t is what the two git invocations answer: t.err is <<>> or <<cause>> of
\* `git diff`, t.out its output, t.status the output of `git status`
getDiff(t) ==
    IF t.err # <<>> THEN [diff |-> ErrGettingDiff \o t.err[1], lastModified |-> <<>>]
    ELSE [diff |-> t.out,
          lastModified |-> IF Len(t.status) > 0 THEN FirstPath(Split(t.status))
                           ELSE <<>>]

\* ---- sample lines and diffs
LHunk     == <<"@", "@", " ", "-", "1", ",", "1", " ", "+", "1", ",", "2", " ", "@", "@">>
LMinusFoo == <<"-", "f", "o", "o">>
LPlusFoo  == <<"+", "f", "o", "o">>
LPlusBar  == <<"+", "b", "a", "r">>
LMinusOld == <<"-", "o", "l", "d">>
LPlusNew  == <<"+", "n", "e", "w">>
LDiffGit  == DiffGit \o <<" ", "a", " ", "b">>
LOldFile  == <<"-", "-", "-", " ", "a">>
LNewFile  == <<"+", "+", "+", " ", "b">>
LContext  == <<" ", "x">>
LEmpty    == <<>>

\* Scenario C: "@@ -1,1 +1,2 @@\n-foo\n+foo\n+bar\n"
ScenarioC == Join(<<LHunk, LMinusFoo, LPlusFoo, LPlusBar, LEmpty>>)

\* two file blocks; the first has one context and one added line
TwoFiles ==
    Join(<<LDiffGit, LOldFile, LNewFile, LHunk, LContext, LPlusFoo,
           LDiffGit, LOldFile, LNewFile, LHunk, LPlusBar, LEmpty>>)

\* "-old" then "+new" in one hunk
OldNew == Join(<<LHunk, LMinusOld, LPlusNew, LEmpty>>)

\* a one-line change, as the program's working trees have it
Edit == Join(<<LMinusOld, LPlusNew, LEmpty>>)

StatusA == <<" ", "M", " ", "a", NL>>
StatusB == <<"?", "?", " ", "b", NL, " ", "M", " ", "a", NL>>
ExitStatus == <<"e", "x", "i", "t">>

Tree(err, out, status) == [err |-> err, out |-> out, status |-> status]
CleanTree == Tree(<<>>, <<>>, <<>>)
\* the working trees of the checked runs
Trees ==
    {CleanTree,
     Tree(<<>>, Edit, StatusA),
     Tree(<<>>, Edit, StatusB),
     Tree(<<ExitStatus>>, <<>>, <<>>)}

---------------------------------------------------------------------------
(* The Directory Observer: watchDirectory (main.go:106-180)                *)

Slash == <<"/">>
DotGitSlash == <<".", "g", "i", "t", "/">>

\* filepath.Rel(dir, name) for a name at or under dir
Rel(dir, name) ==
    IF name = dir THEN <<".">> ELSE TrimPrefix(name, dir \o Slash)

\* a raw fsnotify event: Op is the set of operation bits, Name the path
Raw(op, name) == [Op |-> op, Name |-> name]

\* the condition of line 123-125
Accepted(raw) == raw.Op \cap {"Write", "Create", "Remove"} # {}

\* the remove bit tested before the create bit
EventTypeRemoveFirst(raw) ==
    IF "Remove" \in raw.Op THEN "deleted"
    ELSE IF "Create" \in raw.Op THEN "created"
    ELSE "modified"

\* lines 131-136
EventType(raw) ==
    IF "Create" \in raw.Op THEN "created"
    ELSE IF "Remove" \in raw.Op THEN "deleted"
    ELSE "modified"

\* fileEvent (main.go:61-65)
FileEvent(time, event, file) == [Time |-> time, Event |-> event, File |-> file]

\* what the observer goroutine sends for a raw event read at time t: <<>> when
\* the event is skipped (123-144)
Translate(raw, t) ==
    IF ~Accepted(raw) THEN <<>>
    ELSE IF HasPrefix(Rel(WatchDir, raw.Name), DotGitSlash) THEN <<>>
    ELSE <<FileEvent(t, EventType(raw), Rel(WatchDir, raw.Name))>>

PathA == WatchDir \o <<"/", "a">>
PathB == WatchDir \o <<"/", "b">>

\* ---- the tree under the watch root, and filepath.Walk over it (162-176)
DotGit == <<".", "g", "i", "t">>

\* strings.Contains
Contains(s, sub) ==
    \E i \in 0..(Len(s) - Len(sub)) : SubSeq(s, i + 1, i + Len(sub)) = sub

\* the position of the last "/" of a path, 0 when it has none
RECURSIVE LastSlash(_, _)
LastSlash(path, i) ==
    IF i = 0 THEN 0 ELSE IF path[i] = "/" THEN i ELSE LastSlash(path, i - 1)

\* filepath.Dir of a path below the root: the directory that holds the entry
Dir(path) == SubSeq(path, 1, LastSlash(path, Len(path)) - 1)

DirGit    == WatchDir \o Slash \o DotGit
DirGitHub == WatchDir \o Slash \o DotGit \o <<"h", "u", "b">>
DirD      == WatchDir \o <<"/", "d">>
DirE      == WatchDir \o <<"/", "e">>
DirNew    == WatchDir \o <<"/", "n">>

Entry(path, isDir) == [path |-> path, isDir |-> isDir]

\* what filepath.Walk visits, in its lexical order, when the program starts
WalkEntries ==
    <<Entry(WatchDir, TRUE), Entry(DirGit, TRUE), Entry(DirGit \o <<"/", "x">>, FALSE),
      Entry(DirGitHub, TRUE), Entry(PathA, FALSE), Entry(DirD, TRUE),
      Entry(DirD \o Slash \o DotGit, TRUE), Entry(DirE, TRUE)>>

\* what can go wrong during the walk: entries Walk cannot read (the err
\* handed to the callback), directories watcher.Add refuses
Fault(unreadable, addFails) == [unreadable |-> unreadable, addFails |-> addFails]

\* a walk that registers the .git directories as well
RECURSIVE WalkIntoGit(_, _, _, _)
WalkIntoGit(entries, i, fault, added) ==
    IF i > Len(entries) THEN [watched |-> added, err |-> FALSE]
    ELSE IF entries[i].path \in fault.unreadable THEN [watched |-> added, err |-> TRUE]
    ELSE IF ~entries[i].isDir THEN WalkIntoGit(entries, i + 1, fault, added)
    ELSE IF entries[i].path \in fault.addFails THEN [watched |-> added, err |-> TRUE]
    ELSE WalkIntoGit(entries, i + 1, fault, added \cup {entries[i].path})

\* filepath.Walk with the callback of lines 162-173, from entry i on: a
\* non-nil return of the callback ends the walk, which returns that error
RECURSIVE Walk(_, _, _, _)
Walk(entries, i, fault, added) ==
    IF i > Len(entries) THEN [watched |-> added, err |-> FALSE]
    ELSE IF entries[i].path \in fault.unreadable THEN [watched |-> added, err |-> TRUE]
    ELSE IF ~entries[i].isDir THEN Walk(entries, i + 1, fault, added)
    ELSE IF Contains(entries[i].path, DotGit) THEN Walk(entries, i + 1, fault, added)
    ELSE IF entries[i].path \in fault.addFails THEN [watched |-> added, err |-> TRUE]
    ELSE Walk(entries, i + 1, fault, added \cup {entries[i].path})

\* an observer that adds a created entry to the watcher
WatchedAfterAddingCreated(raw, w) == IF "Create" \in raw.Op THEN w \cup {raw.Name} ELSE w
\* the watch set after the observer goroutine has handled a raw event
\* (119-144): it never calls watcher.Add
WatchedAfter(raw, w) == w

---------------------------------------------------------------------------
(* model.Update and its helpers (main.go:254-385)                          *)

MaxHistory == 20
HeaderHeight == 3
TableHeight == 10
InitialTableHeight == 8
ClockPerSecond == 2

\* (the new event put behind the others)
PrependAtTail(e, es) == es \o <<e>>
\* line 288: the new event in front
Prepend(e, es) == <<e>> \o es

\* (no cut; a cut that keeps the other end)
TruncateNever(es) == es
TruncateOldestKept(es) ==
    IF Len(es) > MaxHistory THEN SubSeq(es, Len(es) - MaxHistory + 1, Len(es)) ELSE es
\* lines 289-291
Truncate(es) == IF Len(es) > MaxHistory THEN SubSeq(es, 1, MaxHistory) ELSE es

\* event.Time.Format("15:04:05"): the time to the second
Format(t) == t \div ClockPerSecond

\* the rows set last event first
RowsReversed(es) ==
    [i \in 1..Len(es) |-> <<Format(es[Len(es) + 1 - i].Time), es[Len(es) + 1 - i].Event,
                            es[Len(es) + 1 - i].File>>]

\* updateTable (369-385): the rows set from a copy of the history
Rows(es) == [i \in 1..Len(es) |-> <<Format(es[i].Time), es[i].Event, es[i].File>>]

\* viewport.New(w, h), then YPosition = headerHeight (275-276)
NewViewport(w, h) ==
    [Width |-> w, Height |-> h, YPosition |-> HeaderHeight, content |-> <<>>]

\* a viewport left as it was
SetContentSkipped(vp, d, hint) == vp
\* updateDiffView ends in viewport.SetContent (366)
SetContent(vp, d, hint) == [vp EXCEPT !.content = AnnotateDiff(d, hint)]

\* a diffUpdateMsg not yet processed; older: its provider result was obtained
\* before the one now stored
DiffUpdateMsg(r) == [diff |-> r.diff, lastModified |-> r.lastModified, older |-> FALSE]

\* a message that stays in flight when it is taken
AfterDeliveryKept(q, i) == q

\* the messages left when message i is taken: those sent before it are older
\* than the result now stored, those sent after it are not
AfterDelivery(q, i) ==
    [j \in 1..(Len(q) - 1) |->
        IF j < i THEN [q[j] EXCEPT !.older = TRUE] ELSE [q[j + 1] EXCEPT !.older = FALSE]]

\* the record left if one refresh invoked the provider twice
RefreshTwice(text, updates) ==
    <<[differed |-> text # diff, updates |-> updates,
       flip |-> IF lastRefresh = <<>> THEN TRUE ELSE lastRefresh[1].flip]>>

\* the record of a refresh: whether the provider's text differed from the
\* stored text, whether the refresh updated (returned a diffUpdateMsg, or
\* stored the text and rendered it); flip tells one refresh from the next
Refresh(text, updates) ==
    <<[differed |-> text # diff, updates |-> updates,
       flip |-> IF lastRefresh = <<>> THEN FALSE ELSE ~lastRefresh[1].flip]>>

\* the cause alone
NoPrefix == <<>>
\* fmt.Sprintf("Error: %v", msg.err) (315)
ErrorPrefix == <<"E", "r", "r", "o", "r", ":", " ">>
WatchError == <<"n", "o", " ", "d", "i", "r">>

modelVars == <<events, table, width, height, ready, diff, lastModified, viewport>>
observerVars == <<observer, obsHold, fwdHold, now, emitted>>
ghostVars == <<delivered, lastRefresh>>
loopVars == <<running, waited>>
fsVars == <<watched, raws>>

\* initialModel (441-445) with the diff and hint given
InitModel(d, hint) ==
    /\ events = <<>>
    /\ table = [rows |-> <<>>, width |-> 0, height |-> InitialTableHeight]
    /\ width = 0
    /\ height = 0
    /\ ready = FALSE
    /\ diff = d
    /\ lastModified = hint
    /\ viewport = [Width |-> 0, Height |-> 0, YPosition |-> 0, content |-> <<>>]

\* the program when Init (80-85) has returned its two commands
InitProgram ==
    /\ watchCmd = "pending"
    /\ observer = FALSE
    /\ watched = {}
    /\ raws = <<>>
    /\ obsHold = <<>>
    /\ fwdHold = <<>>
    /\ inflight = <<>>
    /\ errPending = 0
    /\ ticks = 1
    /\ quitPending = FALSE
    /\ quit = FALSE
    /\ running = <<>>
    /\ tree = CleanTree
    /\ now = 0
    /\ emitted = <<>>
    /\ delivered = <<>>
    /\ lastRefresh = <<>>
    /\ waited = FALSE

\* updateDiffView is not running
LoopIdle ==
    /\ aIn = <<>>
    /\ aPos = 0
    /\ aLineNum = FirstLineNum
    /\ aOut = <<>>

Init == InitModel(<<>>, <<>>) /\ InitProgram /\ LoopIdle

\* every key returns tea.Quit
UpdateKeyAlwaysQuits(key) ==
    /\ ~quit
    /\ running = <<>>
    /\ quitPending' = TRUE
    /\ UNCHANGED <<modelVars, observerVars, ghostVars, annVars, fsVars, loopVars, watchCmd,
                   inflight, errPending, ticks, quit, tree>>

\* tea.KeyMsg (261-265): "q" and "ctrl+c" return tea.Quit; any other key goes
\* on to viewport.Update and table.Update, which keep content and rows
UpdateKey(key) ==
    /\ ~quit
    /\ running = <<>>
    /\ quitPending' = (quitPending \/ key \in {"q", "ctrl+c"})
    /\ UNCHANGED <<modelVars, observerVars, ghostVars, annVars, fsVars, loopVars, watchCmd,
                   inflight, errPending, ticks, quit, tree>>

\* tea.WindowSizeMsg without m.ready = true
UpdateWindowSizeStaysInitializing(w, h) ==
    /\ ~quit
    /\ running = <<>>
    /\ width' = w
    /\ height' = h
    /\ viewport' = NewViewport(w, h - HeaderHeight - TableHeight)
    /\ table' = [table EXCEPT !.width = w, !.height = TableHeight - 2]
    /\ UNCHANGED <<events, ready, diff, lastModified, observerVars, ghostVars, annVars, fsVars,
                   loopVars, watchCmd, inflight, errPending, ticks, quitPending, quit,
                   tree>>

\* tea.WindowSizeMsg (267-284)
UpdateWindowSize(w, h) ==
    /\ ~quit
    /\ running = <<>>
    /\ width' = w
    /\ height' = h
    /\ IF ~ready
       THEN /\ viewport' = NewViewport(w, h - HeaderHeight - TableHeight)
            /\ ready' = TRUE
       ELSE /\ viewport' = [viewport EXCEPT !.Width = w,
                                            !.Height = h - HeaderHeight - TableHeight]
            /\ UNCHANGED ready
    /\ table' = [table EXCEPT !.width = w, !.height = TableHeight - 2]
    /\ UNCHANGED <<events, diff, lastModified, observerVars, ghostVars, annVars, fsVars, loopVars,
                   watchCmd, inflight, errPending, ticks, quitPending, quit, tree>>

\* fileEventMsg (286-298) for the event e, from the answer of getDiff on
HandleFileEvent(e) ==
    /\ events' = Truncate(Prepend(e, events))
    /\ table' = [table EXCEPT !.rows = Rows(events')]
    /\ inflight' = Append(inflight, DiffUpdateMsg(getDiff(tree)))
    /\ delivered' = Append(delivered, e)
    /\ lastRefresh' = Refresh(getDiff(tree).diff, TRUE)
    /\ UNCHANGED <<width, height, ready, diff, lastModified, viewport, observer,
                   obsHold, now, emitted, annVars, fsVars, watchCmd, errPending,
                   ticks, quitPending, quit, tree>>

\* fileEventMsg (286-298) with a provider that answers at once: the forwarding
\* goroutine's program.Send is received and the handler runs to its return
UpdateFileEvent(maxInflight) ==
    /\ ~quit
    /\ running = <<>>
    /\ fwdHold # <<>>
    /\ Len(inflight) < maxInflight
    /\ HandleFileEvent(fwdHold[1])
    /\ fwdHold' = <<>>
    /\ waited' = FALSE
    /\ UNCHANGED running

\* fileEventMsg, up to the call of getDiff (295): Update is inside exec.Command
\* and the event loop, which called Update, takes no other message
CallFileEvent(maxInflight) ==
    /\ ~quit
    /\ running = <<>>
    /\ fwdHold # <<>>
    /\ Len(inflight) < maxInflight
    /\ running' = <<[msg |-> "fileEventMsg", event |-> fwdHold[1]]>>
    /\ fwdHold' = <<>>
    /\ waited' = FALSE
    /\ UNCHANGED <<modelVars, observer, obsHold, now, emitted, ghostVars, annVars, fsVars,
                   watchCmd, inflight, errPending, ticks, quitPending, quit, tree>>

\* fileEventMsg, from the return of getDiff (295) to the return of Update (298)
ReturnFileEvent ==
    /\ ~quit
    /\ running # <<>>
    /\ running[1].msg = "fileEventMsg"
    /\ HandleFileEvent(running[1].event)
    /\ running' = <<>>
    /\ UNCHANGED <<fwdHold, waited>>

\* diffUpdateMsg (300-303): any of the messages not yet processed may be next
UpdateDiffUpdate(i) ==
    /\ ~quit
    /\ running = <<>>
    /\ i \in 1..Len(inflight)
    /\ diff' = inflight[i].diff
    /\ lastModified' = inflight[i].lastModified
    /\ viewport' = SetContent(viewport, diff', lastModified')
    /\ inflight' = AfterDelivery(inflight, i)
    /\ UNCHANGED <<events, table, width, height, ready, observerVars, delivered,
                   lastRefresh, annVars, fsVars, loopVars, watchCmd, errPending, ticks, quitPending,
                   quit, tree>>

\* return m, nil: no timer is armed
RearmNever(armed) == armed
\* two timers are armed
RearmTwice(armed) == armed + 2
\* return m, tick() (312): the timer is armed again
Rearm(armed) == armed + 1

\* a comparison that never finds a difference
DiffersNever(r, d, hint) == FALSE
\* a comparison of the text and of the hint
DiffersOrHint(r, d, hint) == r.diff # d \/ r.lastModified # hint
\* if diff != m.diff (307): the answer r of getDiff against the stored text d,
\* the stored hint taking no part
Differs(r, d, hint) == r.diff # d

\* tickMsg (305-312) from the answer of getDiff on, armed timers being left
HandleTick(armed) ==
    /\ LET r == getDiff(tree)
       IN  /\ IF Differs(r, diff, lastModified)
              THEN /\ diff' = r.diff
                   /\ lastModified' = r.lastModified
                   /\ viewport' = SetContent(viewport, diff', lastModified')
                   /\ inflight' = [j \in 1..Len(inflight) |->
                                     [inflight[j] EXCEPT !.older = TRUE]]
              ELSE UNCHANGED <<diff, lastModified, viewport, inflight>>
           /\ lastRefresh' = Refresh(r.diff, r.diff # diff)
    /\ ticks' = Rearm(armed)
    /\ UNCHANGED <<events, table, width, height, ready, observerVars, delivered,
                   annVars, fsVars, watchCmd, errPending, quitPending, quit, tree, waited>>

\* tickMsg (305-312) with a provider that answers at once
UpdateTick ==
    /\ ~quit
    /\ running = <<>>
    /\ ticks > 0
    /\ HandleTick(ticks - 1)
    /\ UNCHANGED running

\* a tickMsg handler started without the event loop being free
CallTickConcurrent ==
    /\ ~quit
    /\ ticks > 0
    /\ ticks' = ticks - 1
    /\ running' = Append(running, [msg |-> "tickMsg"])
    /\ UNCHANGED <<modelVars, observerVars, ghostVars, annVars, fsVars, watchCmd, inflight,
                   errPending, quitPending, quit, tree, waited>>

\* tickMsg, up to the call of getDiff (306)
CallTick ==
    /\ ~quit
    /\ running = <<>>
    /\ ticks > 0
    /\ ticks' = ticks - 1
    /\ running' = <<[msg |-> "tickMsg"]>>
    /\ UNCHANGED <<modelVars, observerVars, ghostVars, annVars, fsVars, watchCmd, inflight,
                   errPending, quitPending, quit, tree, waited>>

\* tickMsg, from the return of getDiff (306) to the return of Update (312)
ReturnTick ==
    /\ ~quit
    /\ running # <<>>
    /\ running[1].msg = "tickMsg"
    /\ HandleTick(ticks)
    /\ running' = <<>>

\* errMsg handled with the history emptied
UpdateErrClearingHistory ==
    /\ ~quit
    /\ running = <<>>
    /\ errPending > 0
    /\ errPending' = errPending - 1
    /\ events' = <<>>
    /\ diff' = ErrorPrefix \o WatchError
    /\ viewport' = SetContent(viewport, diff', lastModified)
    /\ inflight' = [j \in 1..Len(inflight) |-> [inflight[j] EXCEPT !.older = FALSE]]
    /\ lastRefresh' = <<>>
    /\ UNCHANGED <<table, width, height, ready, lastModified, observerVars,
                   delivered, annVars, fsVars, loopVars, watchCmd, ticks, quitPending,
                   quit, tree>>

\* errMsg (314-316)
UpdateErr ==
    /\ ~quit
    /\ running = <<>>
    /\ errPending > 0
    /\ errPending' = errPending - 1
    /\ diff' = ErrorPrefix \o WatchError
    /\ viewport' = SetContent(viewport, diff', lastModified)
    /\ inflight' = [j \in 1..Len(inflight) |-> [inflight[j] EXCEPT !.older = FALSE]]
    /\ lastRefresh' = <<>>
    /\ UNCHANGED <<events, table, width, height, ready, lastModified, observerVars,
                   delivered, annVars, fsVars, loopVars, watchCmd, ticks, quitPending, quit, tree>>

\* the message of tea.Quit ends the event loop: program.Run returns and main
\* with it (453-456), which ends every goroutine of the process
ProcessQuit ==
    /\ ~quit
    /\ running = <<>>
    /\ quitPending
    /\ quit' = TRUE
    /\ quitPending' = FALSE
    /\ UNCHANGED <<modelVars, observerVars, ghostVars, annVars, fsVars, loopVars, watchCmd, inflight,
                   errPending, ticks, tree>>

\* the command of watchDirectory (106-179) returns: errMsg when the watcher
\* cannot be made (108-111), errMsg after the goroutines are started when the
\* walk fails (174-176), nil otherwise
WatchStart(outcome) ==
    /\ ~quit
    /\ watchCmd = "pending"
    /\ watchCmd' = IF outcome = "ok" THEN "done" ELSE "failed"
    /\ observer' = (outcome # "noWatcher")
    /\ errPending' = IF outcome = "ok" THEN errPending ELSE errPending + 1
    /\ UNCHANGED <<modelVars, obsHold, fwdHold, now, emitted, ghostVars, annVars, fsVars, loopVars,
                   inflight, ticks, quitPending, quit, tree>>

\* the command of watchDirectory (106-179) with a watcher that could be made:
\* the goroutines are started (115-160), the tree is walked (162-173), and the
\* command returns errMsg when the walk returns an error (174-176)
WatchDirectory(fault) ==
    /\ ~quit
    /\ watchCmd = "pending"
    /\ observer' = TRUE
    /\ LET w == Walk(WalkEntries, 1, fault, {})
       IN  /\ watched' = w.watched
           /\ watchCmd' = IF w.err THEN "failed" ELSE "done"
           /\ errPending' = IF w.err THEN errPending + 1 ELSE errPending
    /\ UNCHANGED <<modelVars, obsHold, fwdHold, now, emitted, ghostVars, annVars,
                   loopVars, raws, inflight, ticks, quitPending, quit, tree>>

\* lines 119-143 for one raw event: the clock is read, the event sent
Read(raw) ==
    /\ now' = now + 1
    /\ obsHold' = Translate(raw, now')
    /\ emitted' = emitted \o obsHold'

\* the observer goroutine reads a raw event (119) and, unless it skips it,
\* blocks sending the fileEvent on the unbuffered eventChan (143)
Observe(raw, limit) ==
    /\ ~quit
    /\ observer
    /\ obsHold = <<>>
    /\ now < limit
    /\ Read(raw)
    /\ UNCHANGED <<modelVars, observer, fwdHold, ghostVars, annVars, fsVars, loopVars, watchCmd,
                   inflight, errPending, ticks, quitPending, quit, tree>>

\* the directories there are: those of the start and DirNew once created
DirExists(dir) ==
    \/ \E i \in 1..Len(WalkEntries) : WalkEntries[i].isDir /\ WalkEntries[i].path = dir
    \/ \E i \in 1..Len(raws) : raws[i].Name = dir /\ "Create" \in raws[i].Op

\* something changes an entry below the root after the command has returned:
\* the watcher reports it on watcher.Events when the directory that holds the
\* entry is watched, and the observer goroutine, when not blocked, reads it
FsEvent(op, path, limit) ==
    /\ ~quit
    /\ watchCmd # "pending"
    /\ Len(raws) < limit
    /\ DirExists(Dir(path))
    /\ LET raw == Raw(op, path)
           reported == observer /\ Dir(path) \in watched
       IN  /\ raws' = Append(raws, [Op |-> op, Name |-> path, reported |-> reported])
           /\ IF reported
              THEN /\ obsHold = <<>>
                   /\ Read(raw)
                   /\ watched' = WatchedAfter(raw, watched)
              ELSE UNCHANGED <<now, obsHold, emitted, watched>>
    /\ UNCHANGED <<modelVars, observer, fwdHold, ghostVars, annVars, loopVars, watchCmd,
                   inflight, errPending, ticks, quitPending, quit, tree>>

\* a forwarder that throws the event away
ForwardDiscarding ==
    /\ ~quit
    /\ observer
    /\ obsHold # <<>>
    /\ obsHold' = <<>>
    /\ waited' = (running # <<>>)
    /\ UNCHANGED <<modelVars, observer, fwdHold, now, emitted, ghostVars, annVars, fsVars,
                   watchCmd, inflight, errPending, ticks, quitPending, quit, running,
                   tree>>

\* the forwarding goroutine receives from eventChan (155) and calls
\* program.Send (157), which blocks until the event loop takes the message
Forward ==
    /\ ~quit
    /\ observer
    /\ obsHold # <<>>
    /\ fwdHold = <<>>
    /\ fwdHold' = obsHold
    /\ obsHold' = <<>>
    /\ waited' = (running # <<>>)
    /\ UNCHANGED <<modelVars, observer, now, emitted, ghostVars, annVars, fsVars, watchCmd,
                   inflight, errPending, ticks, quitPending, quit, running, tree>>

\* the working tree changes: git answers differently from now on
TreeChange(t) ==
    /\ ~quit
    /\ tree # t
    /\ tree' = t
    /\ lastRefresh' = IF getDiff(t).diff = getDiff(tree).diff THEN lastRefresh ELSE <<>>
    /\ UNCHANGED <<modelVars, observerVars, delivered, annVars, fsVars, loopVars, watchCmd, inflight,
                   errPending, ticks, quitPending, quit>>

Keys == {"q", "ctrl+c", "j"}
Sizes == {<<80, 24>>}
WatchOutcomes == {"ok", "noWatcher", "walkFailed"}
RawEvents == {Raw({"Write"}, PathA)}

MaxInflight == 2
MaxRaw == 1

Next ==
    \/ \E k \in Keys : UpdateKey(k)
    \/ \E s \in Sizes : UpdateWindowSize(s[1], s[2])
    \/ UpdateFileEvent(MaxInflight)
    \/ \E i \in 1..MaxInflight : UpdateDiffUpdate(i)
    \/ UpdateTick
    \/ UpdateErr
    \/ ProcessQuit
    \/ \E o \in WatchOutcomes : WatchStart(o)
    \/ \E raw \in RawEvents : Observe(raw, MaxRaw)
    \/ Forward
    \/ \E t \in Trees : TreeChange(t)

Spec == Init /\ [][Next]_vars

---------------------------------------------------------------------------
(* The same program with a fixed working tree and a richer observer        *)

RawEventsObs ==
    {Raw({"Create"}, PathA), Raw({"Write"}, PathA), Raw({"Remove"}, PathB),
     Raw({"Chmod"}, PathA)}
MaxRawObs == 3

NextObserver ==
    \/ \E k \in Keys : UpdateKey(k)
    \/ \E s \in Sizes : UpdateWindowSize(s[1], s[2])
    \/ UpdateFileEvent(MaxRawObs)
    \/ \E i \in 1..MaxRawObs : UpdateDiffUpdate(i)
    \/ UpdateTick
    \/ UpdateErr
    \/ ProcessQuit
    \/ \E o \in WatchOutcomes : WatchStart(o)
    \/ \E raw \in RawEventsObs : Observe(raw, MaxRawObs)
    \/ Forward

(* ... and with no file events: keys, geometry, ticks, the watcher's error   *)
(* and a changing working tree. The timer of tea.Tick fires after a second    *)
(* and the event loop takes its message whenever it is not inside a handler.  *)

\* the working trees of this specification: one added line in file a
Added == Join(<<LPlusFoo, LEmpty>>)
TreesTicks == {CleanTree, Tree(<<>>, Added, StatusA), Tree(<<ExitStatus>>, <<>>, <<>>)}

NextTicks ==
    \/ \E k \in Keys : UpdateKey(k)
    \/ \E s \in Sizes : UpdateWindowSize(s[1], s[2])
    \/ UpdateTick
    \/ UpdateErr
    \/ ProcessQuit
    \/ \E o \in WatchOutcomes \ {"ok"} : WatchStart(o)
    \/ \E t \in TreesTicks : TreeChange(t)

SpecTicks == Init /\ [][NextTicks]_vars /\ WF_vars(UpdateTick)

SpecObserver == Init /\ [][NextObserver]_vars

(* ... and with a long burst of writes to one file                         *)

MaxBurst == 22

NextBurst ==
    \/ \E k \in Keys : UpdateKey(k)
    \/ \E s \in Sizes : UpdateWindowSize(s[1], s[2])
    \/ UpdateFileEvent(MaxInflight)
    \/ \E i \in 1..MaxInflight : UpdateDiffUpdate(i)
    \/ UpdateTick
    \/ UpdateErr
    \/ ProcessQuit
    \/ \E o \in WatchOutcomes : WatchStart(o)
    \/ \E raw \in RawEvents : Observe(raw, MaxBurst)
    \/ Forward

SpecBurst == Init /\ [][NextBurst]_vars

(* ... and with a diff provider that takes its time: the handlers of          *)
(* fileEventMsg and tickMsg are taken in two steps, around the call of getDiff *)

NextProvider ==
    \/ \E k \in Keys : UpdateKey(k)
    \/ \E s \in Sizes : UpdateWindowSize(s[1], s[2])
    \/ CallFileEvent(MaxInflight)
    \/ ReturnFileEvent
    \/ \E i \in 1..MaxInflight : UpdateDiffUpdate(i)
    \/ CallTick
    \/ ReturnTick
    \/ UpdateErr
    \/ ProcessQuit
    \/ \E o \in WatchOutcomes : WatchStart(o)
    \/ \E raw \in RawEvents : Observe(raw, MaxRaw)
    \/ Forward
    \/ \E t \in Trees : TreeChange(t)

SpecProvider == Init /\ [][NextProvider]_vars

(* ... and with a clean working tree and goroutines that keep running: the   *)
(* forwarding goroutine takes what is on eventChan, the event loop takes the *)
(* messages sent to it                                                       *)

RawEventsDelivery == {Raw({"Write"}, PathA), Raw({"Remove"}, PathB)}
MaxRawDelivery == 3

NextDelivery ==
    \/ \E k \in Keys : UpdateKey(k)
    \/ \E s \in Sizes : UpdateWindowSize(s[1], s[2])
    \/ UpdateFileEvent(MaxInflight)
    \/ \E i \in 1..MaxInflight : UpdateDiffUpdate(i)
    \/ UpdateTick
    \/ ProcessQuit
    \/ WatchStart("ok")
    \/ \E raw \in RawEventsDelivery : Observe(raw, MaxRawDelivery)
    \/ Forward

SpecDelivery ==
    /\ Init
    /\ [][NextDelivery]_vars
    /\ WF_vars(Forward)
    /\ WF_vars(UpdateFileEvent(MaxInflight))
    /\ WF_vars(\E i \in 1..MaxInflight : UpdateDiffUpdate(i))

(* ... and with the tree under the root walked entry by entry           *)

Faults ==
    {Fault({}, {}), Fault({}, {DirD}), Fault({}, {WatchDir}), Fault({DirD}, {})}

AllOps ==
    {{"Create"}, {"Write"}, {"Remove"}, {"Chmod"}, {"Rename"}, {"Create", "Remove"},
     {"Write", "Remove"}}

\* the changes made: every kind of operation on file a, a write in each
\* directory, the entry .git itself, a directory made after the start
FsChanges ==
    {<<op, PathA>> : op \in AllOps}
    \cup {<<{"Write"}, d \o <<"/", "x">>>> :
             d \in {DirGit, DirGitHub, DirD, DirD \o Slash \o DotGit, DirE, DirNew}}
    \cup {<<{"Write"}, DirGit>>, <<{"Create"}, DirNew>>}
MaxFsEvents == 2

NextWatch ==
    \/ \E f \in Faults : WatchDirectory(f)
    \/ WatchStart("noWatcher")
    \/ \E c \in FsChanges : FsEvent(c[1], c[2], MaxFsEvents)
    \/ Forward
    \/ UpdateFileEvent(MaxInflight)
    \/ \E i \in 1..MaxInflight : UpdateDiffUpdate(i)
    \/ UpdateErr

SpecWatch == Init /\ [][NextWatch]_vars

---------------------------------------------------------------------------
(* updateDiffView on a stored diff, its loop (341-364) taken line by line  *)

SampleLines ==
    {LHunk, LMinusFoo, LPlusFoo, LPlusBar, LMinusOld, LPlusNew, LDiffGit,
     LOldFile, LNewFile, LContext, LEmpty}
MaxLines == 3

AnnotateInputs ==
    {ScenarioC, TwoFiles, OldNew}
    \cup {Join(ls) : ls \in UNION {[1..n -> SampleLines] : n \in 0..MaxLines}}

\* hints a stored diff may come with
Hints == {<<>>, <<"a">>}

\* lines 329-341: the diff is split, the preamble written, lineNum set
InitAnnotate ==
    /\ \E d \in AnnotateInputs, hint \in Hints : InitModel(d, hint)
    /\ InitProgram
    /\ aIn = Split(diff)
    /\ aPos = 0
    /\ aLineNum = FirstLineNum
    /\ aOut = Preamble(lastModified)

\* one pass of the loop body (342-364)
AnnotateStep ==
    /\ aPos < Len(aIn)
    /\ aPos' = aPos + 1
    /\ aOut' = aOut \o RenderLine(aIn[aPos + 1], aLineNum)
    /\ aLineNum' = NextLineNum(aIn[aPos + 1], aLineNum)
    /\ UNCHANGED <<progVars, aIn>>

\* line 366
AnnotateFinish ==
    /\ aPos = Len(aIn)
    /\ viewport.content # aOut
    /\ viewport' = [viewport EXCEPT !.content = aOut]
    /\ UNCHANGED <<events, table, width, height, ready, diff, lastModified,
                   watchCmd, observerVars, ghostVars, inflight, errPending, ticks,
                   quitPending, quit, tree, annVars, loopVars, fsVars>>

\* updateDiffView is called again on the same stored diff, the hint being
\* any: lines 329-341 once more
AnnotateAgain(hint) ==
    /\ aPos = Len(aIn)
    /\ viewport.content = aOut
    /\ lastModified' = hint
    /\ aPos' = 0
    /\ aLineNum' = LineNumAtCall(aLineNum)
    /\ aOut' = Preamble(hint)
    /\ UNCHANGED <<events, table, width, height, ready, diff, viewport, watchCmd,
                   observerVars, ghostVars, inflight, errPending, ticks,
                   quitPending, quit, tree, loopVars, fsVars, aIn>>

NextAnnotate ==
    \/ AnnotateStep
    \/ AnnotateFinish
    \/ \E hint \in Hints : AnnotateAgain(hint)

SpecAnnotate == InitAnnotate /\ [][NextAnnotate]_vars

\* the loop and AnnotateDiff write the same content
LoopAgrees == viewport.content \in {<<>>} \cup {AnnotateDiff(diff, hint) : hint \in Hints}

---------------------------------------------------------------------------
(* Properties                                                              *)

\* C1: in every reachable state, whatever messages were processed, the event
\* history holds at most 20 entries.
C1_HistoryBounded == Len(events) <= MaxHistory

\* C1 witness: a full history after more than 20 file events, with an error
\* message, a geometry message and a diff update processed as well.
C1_FullHistory ==
    /\ Len(events) = MaxHistory
    /\ Len(delivered) > MaxHistory
    /\ ready
    /\ errPending = 0 /\ watchCmd = "failed"
    /\ viewport.content # <<>>

\* C2: after k > 20 file events appended from the empty history, the history
\* has exactly 20 entries: the 20 most recent ones, most recent first.
C2_KeepsMostRecent ==
    Len(delivered) > MaxHistory =>
        /\ Len(events) = MaxHistory
        /\ events = Reverse(LastN(delivered, MaxHistory))

\* C2 witness: two events more than the capacity were appended, and the oldest
\* one kept is the third one produced.
C2_TwoEvicted ==
    /\ Len(delivered) = MaxHistory + 2
    /\ events[MaxHistory] = delivered[3]

\* C3: file events reach the history in the order the observer produced them:
\* nothing is lost or reordered between the observer goroutine, the forwarding
\* goroutine and Update, and while at most 20 were produced and all were
\* processed the history is the produced sequence reversed.
C3_OrderPreserved ==
    /\ delivered \o fwdHold \o obsHold = emitted
    /\ Len(delivered) <= MaxHistory => events = Reverse(delivered)

\* C3 witness: Created(a), Modified(a), Deleted(b) were produced in this order
\* and the history is [Deleted(b), Modified(a), Created(a)].
C3_ScenarioA ==
    /\ Len(emitted) = 3
    /\ <<emitted[1].Event, emitted[1].File>> = <<"created", <<"a">>>>
    /\ <<emitted[2].Event, emitted[2].File>> = <<"modified", <<"a">>>>
    /\ <<emitted[3].Event, emitted[3].File>> = <<"deleted", <<"b">>>>
    /\ Len(events) = 3
    /\ <<events[1].Event, events[1].File>> = <<"deleted", <<"b">>>>
    /\ <<events[2].Event, events[2].File>> = <<"modified", <<"a">>>>
    /\ <<events[3].Event, events[3].File>> = <<"created", <<"a">>>>

\* C4: a diff refresh, triggered by a file event or by a tick, sends a
\* diffUpdateMsg only if the provider's text differs from the stored diff.
C4_UpdateOnlyIfChanged ==
    [][Len(inflight') > Len(inflight) => getDiff(tree).diff # diff]_vars

\* C5: two consecutive refreshes for which the provider returns the same
\* text, the first of them finding a different text stored, update exactly
\* once across both.
C5_OneUpdateForSameText ==
    [][(/\ lastRefresh # <<>>
        /\ lastRefresh' # <<>>
        /\ lastRefresh' # lastRefresh
        /\ lastRefresh[1].differed)
       => lastRefresh[1].updates # lastRefresh'[1].updates]_vars

\* C6: in every reachable state the content of the viewport is the annotation
\* of the stored diff with the stored hint (nothing is shown while nothing
\* was stored yet), never empty while the stored diff is not.
C6_ViewDerivedFromStoredDiff ==
    \/ viewport.content = AnnotateDiff(diff, lastModified)
    \/ diff = <<>> /\ viewport.content = <<>>

\* C7: the stored diff is never replaced by a provider result obtained
\* earlier than the result stored: every diffUpdateMsg processed is one that
\* is not older than the stored result.
C7_SnapshotsMonotonic ==
    [][Len(inflight') < Len(inflight) =>
         \E i \in 1..Len(inflight) :
            /\ ~inflight[i].older
            /\ diff' = inflight[i].diff
            /\ lastModified' = inflight[i].lastModified
            /\ inflight' = AfterDelivery(inflight, i)]_vars

\* C8: the line counter is reset at each file header: after a file-header
\* line the counter is 1 again, however many lines were counted before it.
C8_ResetAtFileHeader ==
    (aPos > 0 /\ Classify(aIn[aPos]) = "file-header") => aLineNum = FirstLineNum

\* C9: a removed line never takes a line number: processing it leaves the
\* counter unchanged and writes no number; for "-old" then "+new" in one hunk
\* the counter is 1 when "+new" is processed and 2 afterwards.
C9_RemovedTakesNoNumber ==
    [][aPos' = aPos + 1 =>
         /\ Classify(aIn[aPos']) = "removed" =>
               /\ aLineNum' = aLineNum
               /\ aOut' = aOut \o <<Rendered("removed", <<>>, Tail(aIn[aPos']))>>
         /\ (diff = OldNew /\ aIn[aPos'] = LMinusOld) => aLineNum' = FirstLineNum
         /\ (diff = OldNew /\ aIn[aPos'] = LPlusNew) =>
               aLineNum = FirstLineNum /\ aLineNum' = FirstLineNum + 1]_vars

\* C9 witness: "-old" and "+new" of the hunk were processed, the counter is 2.
C9_OldNewDone ==
    /\ diff = OldNew
    /\ aPos = 3
    /\ aIn[2] = LMinusOld /\ aIn[3] = LPlusNew
    /\ aLineNum = FirstLineNum + 1

KindText(r) == <<r.kind, r.text>>

\* C10: the annotation of "@@ -1,1 +1,2 @@\n-foo\n+foo\n+bar\n" is exactly
\* four lines after the preamble: the hunk header, removed foo, added foo,
\* added bar.
C10_ScenarioCFourLines ==
    (diff = ScenarioC /\ aPos = Len(aIn)) =>
        LET body == SubSeq(aOut, Len(Preamble(lastModified)) + 1, Len(aOut))
        IN  [i \in 1..Len(body) |-> KindText(body[i])]
            = << <<"hunk-header", LHunk>>, <<"removed", <<"f", "o", "o">>>>,
                 <<"added", <<"f", "o", "o">>>>, <<"added", <<"b", "a", "r">>>> >>

\* the lines of a content after the three lines written before the loop
Body(content) == SubSeq(content, Len(Preamble(<<>>)) + 1, Len(content))

\* C11: the annotated lines of a diff depend on the raw diff text only: when
\* the same stored diff is annotated again, under whatever hint, the lines
\* after the three header lines are those of the earlier annotation.
C11_BodyFromTextOnly ==
    (aPos = Len(aIn) /\ viewport.content # <<>>) => Body(aOut) = Body(viewport.content)

\* C11 as stated: the whole output of a second annotation of the same diff is
\* that of the first, whatever the hint.
C11_SameOutput ==
    (aPos = Len(aIn) /\ viewport.content # <<>>) => aOut = viewport.content

\* C11 witness: a three-line diff with numbered lines annotated a second time
\* under another hint.
C11_AnnotatedTwice ==
    /\ aPos = Len(aIn) /\ Len(aIn) = 3
    /\ aLineNum > FirstLineNum
    /\ viewport.content # <<>>
    /\ viewport.content[1] # aOut[1]

\* what the tickMsg branch (306-310) leaves stored when the provider answers
\* as it does on the working tree t
TickStored(d, hint, t) ==
    IF getDiff(t).diff # d
    THEN <<getDiff(t).diff, getDiff(t).lastModified>>
    ELSE <<d, hint>>

\* a step in which a tickMsg was processed: a refresh without a file event
TickProcessed ==
    /\ lastRefresh' # lastRefresh
    /\ lastRefresh' # <<>>
    /\ delivered' = delivered

\* C12: the model after a message depends on the model before and on the
\* message only: the diff and hint a tick leaves stored are the same whatever
\* the working tree is at that moment.
C12_TickResultFromMessagesOnly ==
    [][TickProcessed =>
          \A t \in Trees : <<diff', lastModified'>> = TickStored(diff, lastModified, t)]_vars

\* a step in which a tea.WindowSizeMsg was processed by a model that had none
FirstGeometryProcessed == ~ready /\ <<width', height'>> # <<width, height>>

\* C13: ready is false at the start; the step that processes the first
\* geometry message makes it true; no step makes it false again; and a step
\* that changes ready is the processing of a geometry message: it sets the
\* size and a new viewport and leaves history, diff and hint alone.
C13_ReadyOnFirstGeometry ==
    /\ ~ready
    /\ [][/\ ready => ready'
          /\ FirstGeometryProcessed => ready'
          /\ ready' # ready =>
                /\ \E s \in Sizes :
                      /\ <<width', height'>> = s
                      /\ viewport' = NewViewport(s[1], s[2] - HeaderHeight - TableHeight)
                /\ UNCHANGED <<events, diff, lastModified, inflight, errPending, ticks,
                               quitPending, lastRefresh>>]_vars

\* C13 witness: Ready, with a file event, its diff update, a tick and an error
\* message processed after the geometry message.
C13_StillReady ==
    /\ ready
    /\ viewport.content # <<>>
    /\ events # <<>> /\ inflight = <<>>
    /\ watchCmd = "failed" /\ errPending = 0
    /\ lastRefresh # <<>>

\* C14: the step that processes a file event puts exactly that event at the
\* head of the history, the earlier entries following in their order (the
\* oldest dropped when the history was full), invokes the provider exactly
\* once and returns exactly one command with its result; ready or not.
C14_OneEventOneRefresh ==
    [][delivered' # delivered =>
          /\ delivered' = Append(delivered, fwdHold[1])
          /\ Head(events') = fwdHold[1]
          /\ Tail(events') = SubSeq(events, 1, Len(events') - 1)
          /\ Len(events') = IF Len(events) < MaxHistory THEN Len(events) + 1 ELSE MaxHistory
          /\ lastRefresh' # <<>>
          /\ lastRefresh'[1].flip = (lastRefresh # <<>> /\ ~lastRefresh[1].flip)
          /\ inflight' = Append(inflight, DiffUpdateMsg(getDiff(tree)))
          /\ ready' = ready]_vars

\* C14 witness: two file events processed while Initializing, their two
\* commands' results not yet processed.
C14_TwoEventsInitializing ==
    /\ ~ready
    /\ Len(events) = 2 /\ Len(delivered) = 2
    /\ Len(inflight) = 2
    /\ lastRefresh # <<>> /\ lastRefresh[1].flip

\* C15: as long as the program has not quit a tick timer is armed, and ticks
\* are processed again and again, each one invoking the provider, ready or
\* not and whatever diff is stored, unless the program quits.
C15_TicksRecur ==
    /\ [](~quit => ticks > 0)
    /\ ([]<><<TickProcessed>>_vars \/ <>quit)

\* C15 witness: two ticks processed while Initializing, neither changing the
\* stored diff, and the timer armed again.
C15_TwoTicksInitializing ==
    /\ ~ready /\ ~quit
    /\ delivered = <<>>
    /\ lastRefresh # <<>> /\ lastRefresh[1].flip /\ ~lastRefresh[1].differed
    /\ ticks = 1

\* the text a trigger obtains on the working tree t: the diagnostic text with
\* the cause when git fails, git's output when it succeeds
Obtained(t) == IF t.err # <<>> THEN ErrGettingDiff \o t.err[1] ELSE t.out

\* C16: a provider failure does not end the program and is not dropped: a
\* tick leaves stored the diagnostic text when git fails and git's output
\* when it succeeds, whatever was stored before (a diagnostic text included),
\* and arms the next tick; a file event returns a command with that text.
C16_FailureStoredThenRetried ==
    [][/\ TickProcessed => (diff' = Obtained(tree) /\ ticks' > 0 /\ ~quit')
       /\ delivered' # delivered =>
             (inflight'[Len(inflight')].diff = Obtained(tree) /\ ticks' > 0 /\ ~quit')]_vars

\* C16 witness: the diagnostic text is stored and shown, the provider has
\* recovered since, and a tick is armed.
C16_FailureStored ==
    /\ HasPrefix(diff, ErrGettingDiff)
    /\ viewport.content = AnnotateDiff(diff, <<>>)
    /\ tree.err = <<>> /\ tree.out # <<>>
    /\ ticks > 0 /\ ~quit

\* C17: at any time at most one invocation of the diff provider is running.
C17_OneInvocationAtATime == Len(running) <= 1

\* C17 witness: the provider is running for a tick while a file event waits
\* at program.Send and results of earlier refreshes wait to be processed.
C17_RunningWhileEventWaits ==
    /\ running # <<>> /\ running[1].msg = "tickMsg"
    /\ fwdHold # <<>>
    /\ ~quit

\* C18: a file event that reached the event loop while the provider was
\* running is merged into that refresh: no invocation of the provider is
\* started for it afterwards.
C18_ArrivalsCoalesced ==
    [][(running = <<>> /\ running' # <<>> /\ fwdHold # <<>> /\ fwdHold' = <<>>)
          => ~waited]_vars

\* C19: while the provider is running the event loop still takes other
\* messages: a geometry message can be processed.
C19_LoopNotStalled ==
    running # <<>> => ENABLED (\E s \in Sizes : UpdateWindowSize(s[1], s[2]))

\* C20: the step that processes a diffUpdateMsg stores the message's diff
\* and hint in place of the stored ones and writes the view anew from them,
\* ready or not; history, size and ready are left alone.
C20_DiffUpdatedReplaces ==
    [][Len(inflight') < Len(inflight) =>
          \E i \in 1..Len(inflight) :
              /\ diff' = inflight[i].diff
              /\ lastModified' = inflight[i].lastModified
              /\ viewport'.content = AnnotateDiff(inflight[i].diff, inflight[i].lastModified)
              /\ Len(inflight') = Len(inflight) - 1
              /\ UNCHANGED <<events, table, width, height, ready>>]_vars

\* C20 witness: while Initializing, the only file event's diffUpdateMsg was
\* processed after the working tree had become clean again: its diff and
\* hint are stored and shown.
C20_ResultStoredInitializing ==
    /\ ~ready
    /\ delivered # <<>> /\ inflight = <<>> /\ fwdHold = <<>>
    /\ tree = CleanTree /\ lastRefresh = <<>>
    /\ diff = Edit /\ lastModified = <<"a">>
    /\ viewport.content = AnnotateDiff(Edit, <<"a">>)

QuitKeys == {"q", "ctrl+c"}

\* C21: whenever the event loop can take a key, ready or not, a quit key
\* issues tea.Quit and leaves the model as it is, any other key issues
\* nothing; and a step that issues tea.Quit changes nothing else, so it is no
\* tick, file event, diff update, geometry or error message.
C21_QuitKeyOnly ==
    /\ [](\A k \in Keys :
            (~quit /\ running = <<>>) =>
                IF k \in QuitKeys
                THEN /\ ENABLED (UpdateKey(k) /\ quitPending' /\ UNCHANGED modelVars)
                     /\ ~ENABLED (UpdateKey(k) /\ ~(quitPending' /\ UNCHANGED modelVars))
                ELSE ~ENABLED (UpdateKey(k) /\ quitPending' # quitPending))
    /\ [][(quitPending' /\ ~quitPending) =>
             UNCHANGED <<modelVars, observerVars, ghostVars, loopVars, watchCmd,
                         inflight, errPending, ticks, quit, tree>>]_vars

\* C21 witness: tea.Quit issued by a Ready model with a history and a diff,
\* all of them still there.
C21_QuitIssuedReady ==
    /\ quitPending /\ ~quit
    /\ ready
    /\ events # <<>> /\ diff # <<>> /\ lastModified # <<>>
    /\ viewport.content # <<>>

\* C22: every event the observer accepted is, in order, either processed by
\* the state machine or held by a goroutine blocked on its send (none is
\* discarded), and each is processed in the end unless the program quits.
C22_NoEventDropped ==
    /\ [](emitted = delivered \o fwdHold \o obsHold)
    /\ \A n \in 1..MaxRawDelivery :
          (Len(emitted) >= n) ~> (Len(delivered) >= n \/ quit)

\* C22 witness: one event processed, one held by the forwarding goroutine at
\* program.Send, one held by the observer goroutine blocked on eventChan.
C22_ProducerBlocked ==
    /\ Len(delivered) = 1
    /\ fwdHold # <<>> /\ obsHold # <<>>
    /\ Len(emitted) = MaxRawDelivery
    /\ ~quit

\* C23: when watcher.Add fails for a subdirectory only, the command still
\* registers the root and the directories visited after the failing one, and
\* returns no error message.
C23_FailedSubdirSkipped ==
    (watchCmd = "pending" /\ ~quit) =>
        \A f \in Faults :
            (f.unreadable = {} /\ f.addFails # {} /\ WatchDir \notin f.addFails) =>
                ENABLED (/\ WatchDirectory(f)
                         /\ {WatchDir, DirE} \subseteq watched'
                         /\ watchCmd' = "done"
                         /\ errPending' = errPending)

\* C24: once the watcher could not be made or the walk has failed, the
\* program is over: no step after it makes the model Ready, processes a tick
\* or processes a file event.
C24_StartupFailureIsFatal ==
    [][watchCmd = "failed" =>
          (ready' = ready /\ ~TickProcessed /\ delivered' = delivered)]_vars

\* a path that is a .git directory or lies inside one
IsGitMetadata(path) ==
    \/ (Len(path) > Len(DotGit)
        /\ SubSeq(path, Len(path) - Len(DotGit), Len(path)) = Slash \o DotGit)
    \/ Contains(path, Slash \o DotGit \o Slash)

\* C25: when the walk has ended without error, a directory of the tree is
\* unwatched if and only if it is a .git directory or lies inside one.
C25_OnlyGitMetadataUnwatched ==
    watchCmd = "done" =>
        \A i \in 1..Len(WalkEntries) :
            WalkEntries[i].isDir =>
                (WalkEntries[i].path \notin watched <=> IsGitMetadata(WalkEntries[i].path))

\* a path relative to the root that lies inside a .git directory
InsideGit(rel) == HasPrefix(rel, DotGitSlash) \/ Contains(rel, Slash \o DotGitSlash)

\* C26: whatever changes inside a .git directory, no event with a path inside
\* one is sent to the state machine or stands in the history, and the diff
\* refreshes started by events are no more than the events processed.
C26_GitChangesIgnored ==
    /\ \A i \in 1..Len(emitted) : ~InsideGit(emitted[i].File)
    /\ \A i \in 1..Len(events) : ~InsideGit(events[i].File)
    /\ Len(inflight) <= Len(delivered)

\* C26 witness: a file inside .git and a file outside it were written; only
\* the second is in the history.
C26_GitWriteUnseen ==
    /\ \E i \in 1..Len(raws) : InsideGit(Rel(WatchDir, raws[i].Name))
    /\ \E i \in 1..Len(raws) : raws[i].reported
    /\ Len(events) = 1 /\ Len(emitted) = 1

\* C27: once the command of watchDirectory has returned, no step changes the
\* watch set; no event with a path inside the directory made afterwards is
\* ever sent; the making of that directory in the watched root is sent as a
\* created event.
C27_WatchSetFixed ==
    /\ [][watchCmd # "pending" => watched' = watched]_vars
    /\ [](\A i \in 1..Len(emitted) :
             ~HasPrefix(emitted[i].File, Rel(WatchDir, DirNew) \o Slash))
    /\ [](\A i \in 1..Len(raws) :
             (raws[i].Name = DirNew /\ raws[i].reported) =>
                 \E j \in 1..Len(emitted) :
                     /\ emitted[j].File = Rel(WatchDir, DirNew)
                     /\ emitted[j].Event = "created")

\* C27 witness: a directory was made after the start and a file written in
\* it; the only event is the making of the directory.
C27_NewDirectoryUnwatched ==
    /\ Len(raws) = 2
    /\ raws[1].Name = DirNew /\ raws[1].reported
    /\ raws[2].Name = DirNew \o <<"/", "x">> /\ ~raws[2].reported
    /\ Len(emitted) = 1 /\ Len(events) = 1
    /\ DirNew \notin watched

\* C28: the step in which the watcher reports a change of an entry that is
\* not git metadata sends exactly one event when the change has the create,
\* write or remove bit (created with the create bit, else deleted with the
\* remove bit, else modified; the path that of the entry below the root),
\* and sends nothing when it has none of them.
C28_OneEventPerNotification ==
    [][raws' # raws =>
          LET r == raws'[Len(raws')]
          IN  (r.reported /\ ~IsGitMetadata(r.Name)) =>
                  IF r.Op \cap {"Create", "Write", "Remove"} # {}
                  THEN /\ Len(emitted') = Len(emitted) + 1
                       /\ SubSeq(emitted', 1, Len(emitted)) = emitted
                       /\ obsHold' = <<emitted'[Len(emitted')]>>
                       /\ emitted'[Len(emitted')].Event =
                              (IF "Create" \in r.Op THEN "created"
                               ELSE IF "Remove" \in r.Op THEN "deleted"
                               ELSE "modified")
                       /\ WatchDir \o Slash \o emitted'[Len(emitted')].File = r.Name
                  ELSE emitted' = emitted /\ obsHold' = <<>>]_vars

\* C28 witness: a change with the create and remove bits was sent as created,
\* a rename after it sent nothing.
C28_CreateWinsRenameSilent ==
    /\ Len(raws) = 2
    /\ raws[1].Op = {"Create", "Remove"} /\ raws[1].reported
    /\ raws[2].Op = {"Rename"} /\ raws[2].reported
    /\ Len(emitted) = 1
    /\ emitted[1].Event = "created" /\ emitted[1].File = <<"a">>

\* C29: a step that changes the history is the processing of a file event,
\* which puts that event at its head; the steps that process a tick, a diff
\* update, a geometry message, a key or an error message leave the history,
\* contents and order, as it is.
C29_HistoryOnlyByFileEvent ==
    [][/\ events' # events =>
             (fwdHold # <<>> /\ delivered' = Append(delivered, fwdHold[1])
              /\ Head(events') = fwdHold[1])
       /\ (\/ TickProcessed
           \/ Len(inflight') < Len(inflight)
           \/ <<width', height'>> # <<width, height>>
           \/ quitPending' # quitPending
           \/ errPending' < errPending) => events' = events]_vars

\* C29 witness: the history holds the one file event after a tick, the diff
\* update, a geometry message, a quit key and an error message were processed.
C29_HistoryKept ==
    /\ events # <<>> /\ events = Reverse(delivered)
    /\ inflight = <<>> /\ lastRefresh # <<>> /\ ~lastRefresh[1].updates
    /\ ready /\ quitPending
    /\ watchCmd = "failed" /\ errPending = 0

\* C30: processing an added line or a context line, an empty line included,
\* raises the counter by one; processing a hunk header leaves it as it is.
C30_AddedAndContextCount ==
    [][aPos' = aPos + 1 =>
         /\ Classify(aIn[aPos']) \in {"added", "context"} => aLineNum' = aLineNum + 1
         /\ Classify(aIn[aPos']) = "hunk-header" => aLineNum' = aLineNum]_vars

\* C31: when the view was written while Initializing, the step that
\* processes the first geometry message leaves a view that is the annotation
\* of the stored diff.
C31_ContentKeptWhenReady ==
    [][(FirstGeometryProcessed /\ viewport.content # <<>>) =>
          viewport'.content = AnnotateDiff(diff', lastModified')]_vars

---------------------------------------------------------------------------
(* The program with a watcher that starts, file events, a changing working *)
(* tree, no key pressed                                                    *)
(* and an event loop that keeps running: the timer fires after its second  *)
(* and the event loop takes the tickMsg and every diffUpdateMsg sent to it *)

MaxRawConverge == 1

NextConverge ==
    \/ \E s \in Sizes : UpdateWindowSize(s[1], s[2])
    \/ UpdateFileEvent(MaxInflight)
    \/ \E i \in 1..MaxInflight : UpdateDiffUpdate(i)
    \/ UpdateTick
    \/ WatchStart("ok")
    \/ \E raw \in RawEvents : Observe(raw, MaxRawConverge)
    \/ Forward
    \/ \E t \in TreesTicks : TreeChange(t)

SpecConverge ==
    /\ Init
    /\ [][NextConverge]_vars
    /\ WF_vars(UpdateTick)
    /\ WF_vars(\E i \in 1..MaxInflight : UpdateDiffUpdate(i))

\* C32: when from some point on the provider's text stays the same, the
\* stored diff is that text from some point on and for ever; the file events
\* are finitely many and the program does not quit.
C32_EventualConvergence ==
    <>[][Obtained(tree') = Obtained(tree)]_vars => <>[](diff = Obtained(tree))

\* a diffUpdateMsg sampled before the tree changed is in flight after a tick
\* has stored the new text
C32_StaleInFlight ==
    /\ inflight # <<>>
    /\ inflight[1].diff # Obtained(tree)
    /\ diff = Obtained(tree)
    /\ lastRefresh # <<>>

\* a step in which a fileEventMsg was processed
FileEventProcessed == delivered' # delivered

\* the diffUpdateMsg values processed so far: one is returned for each
\* fileEventMsg processed, the others are in flight
DiffUpdatesProcessed == Len(delivered) - Len(inflight)

\* what the messages of q carry, in the order they were sent
Carried(q) == [j \in 1..Len(q) |-> <<q[j].diff, q[j].lastModified>>]

\* C33: the step that processes a file event puts in flight one diffUpdateMsg
\* with the text and hint the provider has in that step; the messages in
\* flight change in number only by such a step or by the processing of one of
\* them, which stores its text and hint; and, the program not quitting, as many
\* of them are processed in the end as file events were processed.
C33_EachEventOneDiffUpdate ==
    /\ [][FileEventProcessed =>
            Carried(inflight') =
                Append(Carried(inflight),
                       <<Obtained(tree), getDiff(tree).lastModified>>)]_vars
    /\ [][Len(inflight') # Len(inflight) =>
            \/ FileEventProcessed
            \/ \E i \in 1..Len(inflight) :
                  /\ Carried(inflight') =
                         SubSeq(Carried(inflight), 1, i - 1)
                             \o SubSeq(Carried(inflight), i + 1, Len(inflight))
                  /\ diff' = inflight[i].diff
                  /\ lastModified' = inflight[i].lastModified]_vars
    /\ \A n \in 1..MaxRawConverge :
          (Len(delivered) >= n) ~> (DiffUpdatesProcessed >= n)

\* the diffUpdateMsg of the one file event was processed after the working
\* tree had changed: the stored text is the one sampled with the event
C33_StaleOutputProcessed ==
    /\ Len(delivered) = MaxRawConverge
    /\ DiffUpdatesProcessed = MaxRawConverge
    /\ diff # Obtained(tree)
    /\ lastRefresh # <<>>
    /\ lastRefresh[1].updates

\* the tickMsg values whose handler is inside getDiff
TicksInHandler == Len(SelectSeq(running, LAMBDA r : r.msg = "tickMsg"))

\* C34: until the program quits there is one tick: armed, or in the handler
\* that will arm its successor; a step that takes a tick away is the start of
\* its handler, and a step that arms one is the return of that handler.
C34_OneTickOutstanding ==
    /\ [](~quit => ticks + TicksInHandler = 1)
    /\ [][ticks' < ticks => ticks' = ticks - 1 /\ TicksInHandler' = TicksInHandler + 1]_vars
    /\ [][ticks' > ticks => ticks' = ticks + 1 /\ TicksInHandler = 1 /\ TicksInHandler' = 0]_vars

\* a tick was processed and its successor is armed, after a file event, an
\* error and a geometry message were processed
C34_RearmedAfterOtherMessages ==
    /\ ticks = 1
    /\ running = <<>>
    /\ lastRefresh # <<>>
    /\ ~lastRefresh[1].updates
    /\ delivered # <<>>
    /\ watchCmd = "failed"
    /\ errPending = 0
    /\ ready

\* C35: the table has one row for each entry of the history, in the order of
\* the history: the row at an index holds the time to the second, the kind
\* and the path of the entry at that index.
C35_RowsMirrorHistory ==
    /\ Len(table.rows) = Len(events)
    /\ \A i \in 1..Len(events) :
          /\ table.rows[i][1] = events[i].Time \div ClockPerSecond
          /\ table.rows[i][2] = events[i].Event
          /\ table.rows[i][3] = events[i].File

\* three events of different kinds, paths and seconds are in the history of
\* a Ready model
C35_ThreeRows ==
    /\ Len(events) = 3
    /\ events[1].File # events[2].File
    /\ events[1].Event # events[3].Event
    /\ events[1].Time \div ClockPerSecond # events[3].Time \div ClockPerSecond
    /\ ready

\* C36: a step that processes a tick while the provider's text is the stored
\* text leaves the stored text, the stored hint and the content of the view
\* as they were, whatever hint the provider gives.
C36_EqualTextTickChangesNothing ==
    [][(TickProcessed /\ Obtained(tree) = diff) =>
          /\ diff' = diff
          /\ lastModified' = lastModified
          /\ viewport'.content = viewport.content]_vars

\* a tick found the stored text again while the provider's hint was another
\* than the stored one
C36_SameTextOtherHint ==
    /\ lastRefresh # <<>>
    /\ ~lastRefresh[1].updates
    /\ diff = Obtained(tree)
    /\ diff # <<>>
    /\ lastModified # getDiff(tree).lastModified
    /\ ready

\* a step in which an errMsg was processed
ErrProcessed == errPending' < errPending

\* the text stored for the watcher's error
ErrorText == <<"E", "r", "r", "o", "r", ":", " ">> \o WatchError

\* C37: the step that processes an errMsg stores "Error: " and the cause and
\* renders it with the stored hint; it leaves history, table, ready flag, hint
\* and the armed tick as they were. While the error text is stored, a tick
\* whose provider text differs from it stores the provider's text, and a step
\* that changes the stored text is a tick or the processing of a diffUpdateMsg.
C37_ErrorShownUntilNextRefresh ==
    /\ [][ErrProcessed =>
            /\ diff' = ErrorText
            /\ viewport'.content = AnnotateDiff(ErrorText, lastModified)
            /\ UNCHANGED <<events, table, ready, lastModified, ticks>>]_vars
    /\ [][(diff = ErrorText /\ TickProcessed /\ Obtained(tree) # ErrorText) =>
            /\ diff' = Obtained(tree)
            /\ viewport'.content = AnnotateDiff(diff', lastModified')]_vars
    /\ [][(diff = ErrorText /\ diff' # diff) =>
            TickProcessed \/ Len(inflight') < Len(inflight)]_vars

\* the error text is stored in a Ready model with a history and a hint, the
\* tick armed
C37_ErrorStored ==
    /\ diff = ErrorText
    /\ events # <<>>
    /\ lastModified # <<>>
    /\ ready
    /\ ticks = 1
    /\ viewport.content = AnnotateDiff(ErrorText, lastModified)

---------------------------------------------------------------------------
(* The program with ticks and a working tree whose `git status` may fail:  *)
(* cmd.Output() returns what the command wrote to its standard output      *)
(* together with the error, and getDiff drops the error (192)               *)

\* statusErr: `git status` ended with an error, after writing status
Answer(err, out, status, statusErr) ==
    [err |-> err, out |-> out, status |-> status, statusErr |-> statusErr]

Barred == Join(<<LPlusBar, LEmpty>>)
\* "??" alone on the first line; a line of three characters first
StatusShortFirst == <<"?", "?", NL, " ", "M", " ", "a", NL>>
StatusThreeFirst == <<" ", "M", " ", NL, "A", " ", " ", "b", " ", NL>>
StatusNoPath == <<"M", NL>>

Answers ==
    {Answer(<<>>, <<>>, <<>>, FALSE),
     Answer(<<>>, Added, StatusA, FALSE),
     Answer(<<>>, Barred, StatusB, FALSE),
     Answer(<<>>, Added, StatusShortFirst, FALSE),
     Answer(<<>>, Barred, StatusThreeFirst, FALSE),
     Answer(<<>>, Added, StatusNoPath, FALSE),
     Answer(<<>>, Barred, <<>>, TRUE),
     Answer(<<>>, Added, StatusA, TRUE),
     Answer(<<ExitStatus>>, <<>>, <<>>, FALSE)}

NextGetDiff ==
    \/ \E s \in Sizes : UpdateWindowSize(s[1], s[2])
    \/ UpdateTick
    \/ \E t \in Answers : TreeChange(t)

SpecGetDiff == Init /\ [][NextGetDiff]_vars

\* s without the white space at its two ends
Trimmed(s) ==
    LET inked == {i \in 1..Len(s) : s[i] \notin Space}
    IN  IF inked = {} THEN <<>>
        ELSE SubSeq(s, CHOOSE i \in inked : \A j \in inked : i <= j,
                       CHOOSE i \in inked : \A j \in inked : i >= j)

\* the path of the first line of the listing longer than three characters
PathOfFirstEntry(status) ==
    LET lines == Split(status)
        long == {i \in 1..Len(lines) : Len(lines[i]) > 3}
    IN  IF long = {} THEN <<>>
        ELSE LET first == CHOOSE i \in long : \A j \in long : i <= j
             IN  Trimmed(SubSeq(lines[first], 4, Len(lines[first])))

\* C38: the hint a tick stores with a changed text is empty when `git diff`
\* or `git status` failed, and otherwise the path of the first line of the
\* status listing longer than three characters, empty when there is none.
C38_HintFromFirstStatusLine ==
    [][(TickProcessed /\ diff' # diff) =>
          lastModified' = IF tree.err # <<>> \/ tree.statusErr THEN <<>>
                          ELSE PathOfFirstEntry(tree.status)]_vars

=============================================================================
